---- MODULE Spec2Model ----
(***************************************************************************)
(* A model of SIRModel.ipynb: the Disease-SIR cell (plot_simple_SIR), the  *)
(* later Traffic-SIR cell (plot_traffic_SIR), the older Traffic-SIR cell    *)
(* over fractions, and the utilities congested() and propagation_time().   *)
(* The initial counts N, I0/C_0 and R0/R_0, which the cells assign as      *)
(* literals, are inputs of the model.                                      *)
(*                                                                         *)
(* Numbers.  Python floats are modelled as fixed-point integers: a         *)
(* compartment value v is stored as v * Scale.  The rates beta, gamma and  *)
(* miu are hundredths (the sliders' step is 0.01).  Every product/quotient *)
(* expression of the source is evaluated exactly and rounded once, toward  *)
(* zero, so that, as for IEEE floats, -(x) and (x) round to opposite       *)
(* values.                                                                 *)
(*                                                                         *)
(* Integration.  scipy's odeint is modelled as one explicit Euler step per  *)
(* interval of the time grid, with the grid spacing taken as one time     *)
(* unit (np.linspace(0, T, T) has spacing T/(T-1)): row i+1 of ret is row  *)
(* i plus, component by component, the tuple the derivative function       *)
(* returns for row i.                                                      *)
(***************************************************************************)
EXTENDS Integers, Sequences, FiniteSets, TLC

VARIABLES
    pc,     \* "idle" | "odeint" | "done" | "returned" | "raised"
    env,    \* the locals of the running plot function
    ret,    \* the rows odeint has produced so far, ret[1] = y_0
    out,    \* the call of a utility function and what it produced
    old     \* the rows of the older Traffic-SIR cell's odeint, when the two
            \* Traffic-SIR cells are run side by side

vars == <<pc, env, ret, out, old>>

----------------------------------------------------------------------------
(* Bounds of the model *)

\* fixed-point resolution: a value v is stored as v * Scale
Scale == 1000
\* largest total N of the enumerated initial conditions
MaxN == 3
\* number of time-grid points integrated in the bounded specification
MaxGrid == 4
\* speeds v_t, v_max are drawn from -MaxSpeed .. MaxSpeed
MaxSpeed == 3
\* rho is drawn from the multiples of 1/RhoDen in [-1/RhoDen, 1 + 1/RhoDen]
RhoDen == 6
\* l, q_c, v_f and k_j are drawn from -1 .. MaxQty
MaxQty == 3

----------------------------------------------------------------------------
(* Program constants *)

\* the sliders run over 0.0 .. 1.0 in steps of 0.01: a rate is rate/RateDen
RateDen == 100
\* plot_simple_SIR
SimpleN == 1000
SimpleI0 == 1
SimpleR0 == 0
SimplePoints == 160
SimpleBeta == 20
SimpleGamma == 10
\* plot_traffic_SIR (the later cell)
TrafficN == 1000
C_0 == 1
R_0 == 0
k == 1
\* plot_traffic_SIR (the older cell)
OldN == 1000
OldC_0 == 100
OldR_0 == 0
Old_k == 1

\* the slider values enumerated: the ends of the range, the defaults
Rates == {0, SimpleGamma, SimpleBeta, RateDen}

----------------------------------------------------------------------------
(* Arithmetic *)

Abs(x) == IF x < 0 THEN -x ELSE x

Sgn(x) == IF x < 0 THEN -1 ELSE IF x > 0 THEN 1 ELSE 0

\* <<q, r>> with a * b = q * d + r and 0 <= r < d, for a, b >= 0 and d > 0,
\* by doubling, so that no intermediate value exceeds 3 * d + q
RECURSIVE MulDivQR(_, _, _)
MulDivQR(a, b, d) ==
    IF b = 0 THEN <<0, 0>>
    ELSE LET h == MulDivQR(a, b \div 2, d)
             add == IF b % 2 = 1 THEN a ELSE 0
             rr == 2 * h[2] + (add % d)
         IN  <<2 * h[1] + (add \div d) + (rr \div d), rr % d>>

\* a * b / d rounded toward zero
MulDiv(a, b, d) == Sgn(a) * Sgn(b) * MulDivQR(Abs(a), Abs(b), d)[1]

\* rate * x for a rate in hundredths
Rate(rate, x) == MulDiv(rate, x, RateDen)

----------------------------------------------------------------------------
(* The derivative functions *)

\* deriv with R typed for I in the infection term of dIdt
deriv_typo(y, N, beta, gamma) ==
    LET S == y[1]
        I == y[2]
        R == y[3]
        dSdt == -MulDiv(beta * S, I, RateDen * N * Scale)
        dIdt == MulDiv(beta * S, R, RateDen * N * Scale) - Rate(gamma, I)
        dRdt == Rate(gamma, I)
    IN  <<dSdt, dIdt, dRdt>>

\* deriv with the factor I / N missing from dSdt
deriv_no_contact(y, N, beta, gamma) ==
    LET S == y[1]
        I == y[2]
        dSdt == -Rate(beta, S)
        dIdt == MulDiv(beta * S, I, RateDen * N * Scale) - Rate(gamma, I)
        dRdt == Rate(gamma, I)
    IN  <<dSdt, dIdt, dRdt>>

\* plot_simple_SIR.deriv
deriv(y, N, beta, gamma) ==
    LET S == y[1]
        I == y[2]
        R == y[3]
        dSdt == -MulDiv(beta * S, I, RateDen * N * Scale)
        dIdt == MulDiv(beta * S, I, RateDen * N * Scale) - Rate(gamma, I)
        dRdt == Rate(gamma, I)
    IN  <<dSdt, dIdt, dRdt>>

\* deriv_traffic with the counts R and C in place of frac_R and frac_C
deriv_traffic_raw_counts(y, N, beta, miu) ==
    LET C == y[2]
        R == y[3]
        one == Scale
        dFdt == -MulDiv(beta * k * C, one - R - C, RateDen * Scale)
        dCdt == -Rate(miu, C) + MulDiv(beta * k * C, one - R - C, RateDen * Scale)
        dRdt == Rate(miu, C)
    IN  <<dCdt, dRdt, dFdt>>

\* deriv_traffic with the recovery term missing from dCdt
deriv_traffic_no_recovery(y, N, beta, miu) ==
    LET C == y[2]
        R == y[3]
        one == N * Scale
        dFdt == -MulDiv(beta * k * C, one - R - C, RateDen * N * Scale)
        dCdt == MulDiv(beta * k * C, one - R - C, RateDen * N * Scale)
        dRdt == Rate(miu, C)
    IN  <<dCdt, dRdt, dFdt>>

\* plot_traffic_SIR.deriv_traffic (the later cell).  frac_R and frac_C are
\* kept as numerators over the denominator N * Scale, so 1 - frac_R - frac_C
\* is (N * Scale - R - C) / (N * Scale).  The tuple is returned in the
\* order the source returns it.
deriv_traffic(y, N, beta, miu) ==
    LET F == y[1]
        C == y[2]
        R == y[3]
        frac_R == R
        frac_C == C
        one == N * Scale
        dFdt == -MulDiv(beta * k * C, one - frac_R - frac_C, RateDen * N * Scale)
        dCdt == -Rate(miu, C)
                + MulDiv(beta * k * C, one - frac_R - frac_C, RateDen * N * Scale)
        dRdt == Rate(miu, C)
    IN  <<dCdt, dRdt, dFdt>>

\* a count X divided by N, as in c_0 = C_0 / N.  A fraction is kept as its
\* numerator over the denominator N * Scale: floats have the same relative
\* precision at every magnitude, so the fraction C / N is resolved as finely
\* as the count C is
FractionOfN(X, N) == MulDiv(X, N * Scale, N)

\* plot_traffic_SIR.deriv_traffic (the older cell), over the fractions
\* f, c, r; the 1 of 1 - r - c is N * Scale / (N * Scale)
deriv_traffic_old(y, N, beta, miu) ==
    LET f == y[1]
        c == y[2]
        r == y[3]
        one == N * Scale
        dcdt == -Rate(miu, c) + MulDiv(beta * Old_k * c, one - r - c, RateDen * one)
        drdt == Rate(miu, c)
        dfdt == -MulDiv(beta * Old_k * c, one - r - c, RateDen * one)
    IN  <<dcdt, drdt, dfdt>>

\* the func argument of odeint
func(e, y) ==
    IF e.cell = "simple" THEN deriv(y, e.N, e.beta, e.rec)
    ELSE deriv_traffic(y, e.N, e.beta, e.rec)

\* one integration step of odeint from row y
odeint(e, y) ==
    LET dydt == func(e, y)
    IN  <<y[1] + dydt[1], y[2] + dydt[2], y[3] + dydt[3]>>

\* one integration step of the older cell's odeint from row y
odeint_old(e, y) ==
    LET dydt == deriv_traffic_old(y, e.N, e.beta, e.rec)
    IN  <<y[1] + dydt[1], y[2] + dydt[2], y[3] + dydt[3]>>

----------------------------------------------------------------------------
(* The plot functions *)

\* the initial counts enumerated: (N, infected/congested, recovered)
InitialCounts ==
    {c \in [N : 1..MaxN, X0 : -1..(MaxN + 1), R0 : -1..(MaxN + 1)] :
        c.X0 <= c.N + 1 /\ c.R0 <= c.N + 1}

Init ==
    /\ pc = "idle"
    /\ env = [cell |-> "none"]
    /\ ret = <<>>
    /\ out = [fn |-> "none"]
    /\ old = <<>>

\* the locals of a plot function up to its call of odeint
Locals(cell, N, X0, R0, beta, rec, points) ==
    [cell |-> cell, N |-> N, X0 |-> X0, R0 |-> R0,
     beta |-> beta, rec |-> rec, points |-> points]

\* plot_simple_SIR(beta, gamma): S0 = N - I0 - R0, y0 = S0, I0, R0
plot_simple_SIR(N, I0, R0, beta, gamma, points) ==
    /\ pc = "idle"
    /\ env' = Locals("simple", N, I0, R0, beta, gamma, points)
    /\ ret' = << <<(N - I0 - R0) * Scale, I0 * Scale, R0 * Scale>> >>
    /\ pc' = "odeint"
    /\ UNCHANGED <<out, old>>

\* plot_traffic_SIR(beta, miu): F_0 = N - C_0 - R_0, y_0 = F_0, C_0, R_0
plot_traffic_SIR(N, C0, R0, beta, miu, points) ==
    /\ pc = "idle"
    /\ env' = Locals("traffic", N, C0, R0, beta, miu, points)
    /\ ret' = << <<(N - C0 - R0) * Scale, C0 * Scale, R0 * Scale>> >>
    /\ pc' = "odeint"
    /\ UNCHANGED <<out, old>>

CallSimple ==
    \E c \in InitialCounts \cup {[N |-> SimpleN, X0 |-> SimpleI0, R0 |-> SimpleR0]} :
    \E beta \in Rates, gamma \in Rates :
        plot_simple_SIR(c.N, c.X0, c.R0, beta, gamma, MaxGrid)

CallTraffic ==
    \E c \in InitialCounts \cup {[N |-> TrafficN, X0 |-> C_0, R0 |-> R_0]} :
    \E beta \in Rates, miu \in Rates :
        plot_traffic_SIR(c.N, c.X0, c.R0, beta, miu, MaxGrid)

\* odeint computes the next row of ret
Step ==
    /\ pc = "odeint"
    /\ Len(ret) < env.points
    /\ ret' = Append(ret, odeint(env, ret[Len(ret)]))
    /\ UNCHANGED <<pc, env, out, old>>

\* odeint returns; S, I, R = ret.T
Finish ==
    /\ pc = "odeint"
    /\ Len(ret) = env.points
    /\ pc' = "done"
    /\ UNCHANGED <<env, ret, out, old>>

----------------------------------------------------------------------------
(* congested *)

\* Python's true division a / b of two numbers, as an exact fraction with a
\* positive denominator; b = 0 raises ZeroDivisionError
TrueDiv(a, b) ==
    IF b = 0 THEN [kind |-> "raise", exc |-> "ZeroDivisionError"]
    ELSE IF b < 0 THEN [kind |-> "return", num |-> -a, den |-> -b]
    ELSE [kind |-> "return", num |-> a, den |-> b]

\* x <= rho in place of x < rho
LessOrEqual(x, rho) == x.num * rho.den <= rho.num * x.den

\* x < rho for two fractions with positive denominators
Less(x, rho) == x.num * rho.den < rho.num * x.den

\* congested(v_t, v_max, rho): congested = (v_t / v_max) < rho
congested(v_t, v_max, rho) ==
    LET quot == TrueDiv(v_t, v_max)
    IN  IF quot.kind = "raise" THEN quot
        ELSE [kind |-> "return", value |-> Less(quot, rho)]

\* the speeds enumerated
Speeds == (-MaxSpeed..MaxSpeed) \cup {20, 60}

\* the thresholds enumerated
Thresholds == {[num |-> n, den |-> RhoDen] : n \in -1..(RhoDen + 1)}

CallCongested ==
    \E v_t \in Speeds, v_max \in Speeds, rho \in Thresholds :
        /\ pc = "idle"
        /\ out' = [fn |-> "congested", v_t |-> v_t, v_max |-> v_max, rho |-> rho,
                   result |-> congested(v_t, v_max, rho)]
        /\ pc' = IF congested(v_t, v_max, rho).kind = "raise"
                 THEN "raised" ELSE "returned"
        /\ UNCHANGED <<env, ret, old>>

----------------------------------------------------------------------------
(* propagation_time *)

RECURSIVE GCD(_, _)
GCD(a, b) == IF b = 0 THEN a ELSE GCD(b, a % b)

\* the fraction n / d, d # 0, in lowest terms with a positive denominator:
\* the value a float expression has, whatever the order it was computed in
Fraction(n, d) ==
    LET g == GCD(Abs(n), Abs(d))
    IN  [kind |-> "return", num |-> Sgn(d) * (n \div g), den |-> Abs(d) \div g]

\* x / y of two fractions; y = 0 raises ZeroDivisionError
Quotient(x, y) ==
    IF y.num = 0 THEN [kind |-> "raise", exc |-> "ZeroDivisionError"]
    ELSE Fraction(x.num * y.den, x.den * y.num)

\* x - y of two fractions
Difference(x, y) == Fraction(x.num * y.den - y.num * x.den, x.den * y.den)

\* the number a as a fraction
Number(a) == [kind |-> "return", num |-> a, den |-> 1]

\* propagation_time with k_j + k_c for k_j - k_c in the shockwave speed
propagation_time_plus(l, q_c, v_f, k_j) ==
    LET k_c == Quotient(Number(q_c), Number(v_f))
        omega == Quotient(Number(q_c),
                          Difference(Number(k_j), [k_c EXCEPT !.num = -@]))
        eta == Quotient(Number(l), omega)
    IN  IF k_c.kind = "raise" THEN k_c
        ELSE IF omega.kind = "raise" THEN omega
        ELSE eta

\* propagation_time(l, q_c, v_f, k_j): k_c = q_c / v_f,
\* omega = q_c / (k_j - k_c), eta = l / omega; the first division by zero
\* raises and ends the call
propagation_time(l, q_c, v_f, k_j) ==
    LET k_c == Quotient(Number(q_c), Number(v_f))
        omega == Quotient(Number(q_c), Difference(Number(k_j), k_c))
        eta == Quotient(Number(l), omega)
    IN  IF k_c.kind = "raise" THEN k_c
        ELSE IF omega.kind = "raise" THEN omega
        ELSE eta

\* the link parameters enumerated
Quantities(example) == (-1..MaxQty) \cup {example}

CallPropagationTime ==
    \E l \in Quantities(500), q_c \in Quantities(1800),
       v_f \in Quantities(60), k_j \in Quantities(180) :
        /\ pc = "idle"
        /\ out' = [fn |-> "propagation_time", l |-> l, q_c |-> q_c, v_f |-> v_f,
                   k_j |-> k_j, result |-> propagation_time(l, q_c, v_f, k_j)]
        /\ pc' = IF propagation_time(l, q_c, v_f, k_j).kind = "raise"
                 THEN "raised" ELSE "returned"
        /\ UNCHANGED <<env, ret, old>>

----------------------------------------------------------------------------
(* Specifications *)

Next ==
    \/ CallSimple \/ CallTraffic \/ Step \/ Finish
    \/ CallCongested \/ CallPropagationTime

Spec == Init /\ [][Next]_vars

\* plot_simple_SIR() with the cell's own literals and default arguments, over
\* the cell's whole time grid
CallSimpleDefault ==
    plot_simple_SIR(SimpleN, SimpleI0, SimpleR0, SimpleBeta, SimpleGamma,
                    SimplePoints)

NextScenario == CallSimpleDefault \/ Step \/ Finish

SpecScenario == Init /\ [][NextScenario]_vars

\* the two Traffic-SIR cells called with the same N, counts, beta and miu:
\* the later cell starts from y_0 = F_0, C_0, R_0, the older cell from
\* y_0 = f_0, c_0, r_0 with c_0, r_0, f_0 = C_0 / N, R_0 / N, F_0 / N
plot_traffic_SIR_both(N, C0, R0, beta, miu, points) ==
    /\ pc = "idle"
    /\ env' = Locals("both", N, C0, R0, beta, miu, points)
    /\ ret' = << <<(N - C0 - R0) * Scale, C0 * Scale, R0 * Scale>> >>
    /\ old' = << <<FractionOfN(N - C0 - R0, N), FractionOfN(C0, N),
                   FractionOfN(R0, N)>> >>
    /\ pc' = "odeint"
    /\ UNCHANGED out

CallBoth ==
    \E c \in InitialCounts \cup {[N |-> TrafficN, X0 |-> C_0, R0 |-> R_0],
                                 [N |-> OldN, X0 |-> OldC_0, R0 |-> OldR_0]} :
    \E beta \in Rates, miu \in Rates :
        plot_traffic_SIR_both(c.N, c.X0, c.R0, beta, miu, MaxGrid)

\* each cell's odeint computes its next row
StepBoth ==
    /\ pc = "odeint"
    /\ env.cell = "both"
    /\ Len(ret) < env.points
    /\ ret' = Append(ret, odeint(env, ret[Len(ret)]))
    /\ old' = Append(old, odeint_old(env, old[Len(old)]))
    /\ UNCHANGED <<pc, env, out>>

\* both calls of odeint return
FinishBoth ==
    /\ pc = "odeint"
    /\ env.cell = "both"
    /\ Len(ret) = env.points
    /\ pc' = "done"
    /\ UNCHANGED <<env, ret, out, old>>

NextBoth == CallBoth \/ StepBoth \/ FinishBoth

SpecBoth == Init /\ [][NextBoth]_vars

----------------------------------------------------------------------------
(* Properties *)

\* a plot function has been called and odeint is running or has returned
Integrating == pc \in {"odeint", "done"}

\* the initial counts are non-negative and do not exceed N
ValidInitial == env.X0 >= 0 /\ env.R0 >= 0 /\ env.X0 + env.R0 <= env.N

Rows == 1..Len(ret)

Pairs == 1..(Len(ret) - 1)

\* C1: in a Traffic-SIR integration over (F, C, R), every step changes C by
\* -mu*C + beta*k*C*(1 - r - c), R by mu*C and F by -beta*k*C*(1 - r - c).
EachCompartmentByOwnEquation ==
    (Integrating /\ env.cell = "traffic") =>
        \A i \in Pairs :
            LET F == ret[i][1]
                C == ret[i][2]
                R == ret[i][3]
                spread == MulDiv(env.beta * k * C, env.N * Scale - R - C,
                                 RateDen * env.N * Scale)
                recover == MulDiv(env.rec, C, RateDen)
            IN  /\ ret[i + 1][1] - F = -spread
                /\ ret[i + 1][2] - C = -recover + spread
                /\ ret[i + 1][3] - R = recover

\* C2: at every time-grid point of either variant the three compartments sum
\* to the fixed total N.
Conservation ==
    Integrating =>
        \A i \in Rows : ret[i][1] + ret[i][2] + ret[i][3] = env.N * Scale

\* C2 witness: a finished Traffic-SIR run from valid counts whose state moved
ConservationWitness ==
    /\ pc = "done"
    /\ env.cell = "traffic"
    /\ ValidInitial
    /\ env.beta > 0 /\ env.rec > 0
    /\ ret[Len(ret)] # ret[1]

\* C3: in a Traffic-SIR integration from valid initial counts the Recovered
\* column (the third) is non-decreasing along the time grid.
RecoveredNonDecreasing ==
    (Integrating /\ env.cell = "traffic" /\ ValidInitial) =>
        \A i \in Pairs : ret[i + 1][3] >= ret[i][3]

\* C4: from non-negative initial counts every compartment of both variants
\* stays >= 0 at every time-grid point.
NonNegative ==
    (Integrating /\ ValidInitial) =>
        \A i \in Rows : \A j \in 1..3 : ret[i][j] >= 0

\* C5: with gamma = 0 (Disease-SIR) or mu = 0 (Traffic-SIR) the Recovered
\* column equals R0 at every time-grid point.
NoRecoveryConstant ==
    (Integrating /\ ValidInitial /\ env.rec = 0) =>
        \A i \in Rows : ret[i][3] = env.R0 * Scale

\* C6: with I0 = 0 (Disease-SIR) or C0 = 0 (Traffic-SIR) every row of the
\* integration equals the initial state.
NoSpontaneousOutbreak ==
    (Integrating /\ env.X0 = 0) =>
        \A i \in Rows : ret[i] = ret[1]

\* C6 witness: a finished Disease-SIR run with nobody infected, somebody
\* susceptible, somebody recovered and both rates positive
NoSpontaneousOutbreakWitness ==
    /\ pc = "done"
    /\ env.cell = "simple"
    /\ env.X0 = 0
    /\ env.R0 > 0 /\ env.N - env.R0 > 0
    /\ env.beta > 0 /\ env.rec > 0
    /\ Len(ret) = env.points

SinglePeak ==
    \E p \in Rows :
        /\ \A i \in 1..(p - 1) : ret[i][2] <= ret[i + 1][2]
        /\ \A i \in p..(Len(ret) - 1) : ret[i][2] >= ret[i + 1][2]

\* C8: in the scenario N=1000, I0=1, R0=0, beta=0.2, gamma=0.1 over 160 grid
\* points the Infected trajectory has a single peak, and the Susceptible
\* value at the last grid point is > 0.
ScenarioSinglePeak ==
    /\ Integrating => SinglePeak
    /\ pc = "done" => (Len(ret) = SimplePoints /\ ret[Len(ret)][1] > 0)

\* C8 witness: the scenario has run over the whole grid and the Infected
\* column rose above its first value and fell below its peak
ScenarioWitness ==
    /\ pc = "done"
    /\ env = Locals("simple", SimpleN, SimpleI0, SimpleR0, SimpleBeta,
                    SimpleGamma, SimplePoints)
    /\ \E p \in Rows : ret[p][2] > ret[1][2] /\ ret[p][2] > ret[Len(ret)][2]

\* C9: for v_max > 0, congested returns true exactly when v_t / v_max < rho;
\* v_t = 0 is congested for every rho > 0, and so is v_t=20, v_max=60,
\* rho=0.5.
CongestedIffBelowThreshold ==
    (out.fn = "congested" /\ out.v_max > 0) =>
        /\ pc = "returned"
        /\ out.result.kind = "return"
        /\ out.result.value = (out.v_t * out.rho.den < out.rho.num * out.v_max)
        /\ (out.v_t = 0 /\ out.rho.num > 0) => out.result.value
        /\ (out.v_t = 20 /\ out.v_max = 60 /\ 2 * out.rho.num = out.rho.den)
               => out.result.value

\* C9 witness: a speed ratio equal to the threshold has been classified
CongestedWitness ==
    /\ out.fn = "congested"
    /\ out.v_max > 0 /\ out.v_t > 0
    /\ out.v_t * out.rho.den = out.rho.num * out.v_max
    /\ pc = "returned"

\* C10: for every v_max <= 0 congested signals an error and returns no
\* boolean.
NonPositiveVmaxRaises ==
    (out.fn = "congested" /\ out.v_max <= 0) =>
        (pc = "raised" /\ out.result.kind = "raise")

\* the call's preconditions: v_f > 0 and k_j > k_c, where k_c = q_c / v_f
PropagationPreconditions == out.v_f > 0 /\ out.k_j * out.v_f > out.q_c

\* the returned eta is l / (q_c / (k_j - q_c / v_f)), which is
\* l * (k_j * v_f - q_c) / (q_c * v_f)
EtaIsTheFormula ==
    /\ pc = "returned"
    /\ out.result.kind = "return"
    /\ out.result.den > 0
    /\ out.result.num * (out.q_c * out.v_f)
           = out.l * (out.k_j * out.v_f - out.q_c) * out.result.den

\* C11 as stated: under v_f > 0 and k_j > k_c, propagation_time returns
\* eta = l / (q_c / (k_j - k_c)), and eta is strictly positive for every l
\* and q_c.
PropagationTimePositive ==
    (out.fn = "propagation_time" /\ PropagationPreconditions) =>
        (EtaIsTheFormula /\ out.result.num > 0)

\* C11 amended: under v_f > 0, k_j > k_c, l > 0 and q_c > 0,
\* propagation_time returns eta = l / (q_c / (k_j - k_c)), and eta is
\* strictly positive; l=500, q_c=1800, v_f=60, k_j=180 gives eta = 500/12.
PropagationTimePositiveForPositiveInputs ==
    (out.fn = "propagation_time" /\ PropagationPreconditions
        /\ out.l > 0 /\ out.q_c > 0) =>
        /\ EtaIsTheFormula
        /\ out.result.num > 0
        /\ (out.l = 500 /\ out.q_c = 1800 /\ out.v_f = 60 /\ out.k_j = 180)
               => out.result.num * 12 = 500 * out.result.den

\* C11 witness: the example l=500, q_c=1800, v_f=60, k_j=180 has returned
PropagationTimeWitness ==
    /\ out.fn = "propagation_time"
    /\ out.l = 500 /\ out.q_c = 1800 /\ out.v_f = 60 /\ out.k_j = 180
    /\ pc = "returned"

\* C12: whenever v_f <= 0 or k_j <= k_c, propagation_time signals an error
\* and returns no eta.
InvalidPropagationRaises ==
    (out.fn = "propagation_time"
        /\ (out.v_f <= 0 \/ out.k_j * out.v_f <= out.q_c)) =>
        (pc = "raised" /\ out.result.kind = "raise")

\* N times a fraction of the older cell (a numerator over N * Scale), as a
\* count in units of 1 / Scale
NTimes(x, N) == MulDiv(N, x, N)

====
